---- MODULE Spec2Model ----
(***************************************************************************)
(* Shortest-path program prac_gp_daa.py: graph input (input_graph), the    *)
(* single-source algorithm (dijkstra), the all-pairs algorithm             *)
(* (floyd_warshall) and the menu loop of main() with its retained          *)
(* last_dijkstra / last_source pair.                                       *)
(*                                                                         *)
(* Text typed by the user is a sequence of one-character strings, so that  *)
(* str.isdigit, str.isalpha, int() and str.split() are computed and not    *)
(* assumed.  A Python dict is the sequence of its (key, value) items in    *)
(* insertion order; a Python list is a sequence.                           *)
(***************************************************************************)
EXTENDS Integers, Sequences, FiniteSets, TLC

VARIABLES
    pc,             \* where main() is: "n", "vertices", "e", "edges", "menu", "done"
    n,              \* input_graph: number of vertices
    vertices,       \* input_graph / main: list of vertex names
    graph,          \* input_graph / main: dict of dicts
    e,              \* input_graph: number of edges
    edge_i,         \* input_graph: edges accepted so far (the loop of line 52)
    last_dijkstra,  \* main: retained distances, or None
    last_source,    \* main: retained source, or None
    fw_result,      \* main: final matrix of the last floyd_warshall call
    all_matrices,   \* main: its snapshots
    out             \* what the last step printed ("" when it printed nothing)

vars == <<pc, n, vertices, graph, e, edge_i, last_dijkstra, last_source,
          fw_result, all_matrices, out>>

\* ------------------------------------------------------------------------
\* Bounds of the explored inputs
\* ------------------------------------------------------------------------
\* largest vertex count typed at "Enter number of vertices"
MaxVertices == 3
\* largest edge count typed at "Enter number of edges"
MaxEdges == 2

\* sys.maxsize, the INFINITY sentinel.  The program only adds and compares
\* it (Python integers do not wrap); it is scaled from 2^63-1 to 2^20-1 so
\* that the sum of two cells stays inside TLC's integers.
maxsize == 1048575

\* Python None.  It is only ever compared with a result of dijkstra (a dict
\* that holds at least the source) and with a vertex name (isalpha, so not
\* empty); the empty sequence is different from both.
None == <<>>

\* ------------------------------------------------------------------------
\* Text
\* ------------------------------------------------------------------------
DigitChars == <<"0", "1", "2", "3", "4", "5", "6", "7", "8", "9">>
AlphaChars == <<"A", "B", "C", "Z">>

SeqRange(s) == {s[i] : i \in 1..Len(s)}

\* str.isdigit(): non-empty and every character a digit
Digits == SeqRange(DigitChars)
isdigit(val) == Len(val) > 0 /\ \A i \in 1..Len(val) : val[i] \in Digits

\* str.isalpha(): non-empty and every character a letter
Letters == SeqRange(AlphaChars)
isalpha(val) == Len(val) > 0 /\ \A i \in 1..Len(val) : val[i] \in Letters

DigitVal(c) == (CHOOSE i \in 1..Len(DigitChars) : DigitChars[i] = c) - 1

\* int(val) for a string of digits
RECURSIVE int(_)
int(val) ==
    IF Len(val) = 0 THEN 0
    ELSE int(SubSeq(val, 1, Len(val) - 1)) * 10 + DigitVal(val[Len(val)])

\* str.split(): the maximal runs of non-blank characters, in order
RECURSIVE split_from(_, _, _)
split_from(line, i, word) ==
    IF i > Len(line)
    THEN (IF word = <<>> THEN <<>> ELSE <<word>>)
    ELSE IF line[i] = " "
         THEN (IF word = <<>> THEN <<>> ELSE <<word>>) \o split_from(line, i + 1, <<>>)
         ELSE split_from(line, i + 1, Append(word, line[i]))

split(line) == split_from(line, 1, <<>>)

\* string comparison of Python (by code point), on the letters used here
Ord(c) == CHOOSE i \in 1..Len(AlphaChars) : AlphaChars[i] = c

RECURSIVE StrLess(_, _)
StrLess(a, b) ==
    IF Len(b) = 0 THEN FALSE
    ELSE IF Len(a) = 0 THEN TRUE
    ELSE IF a[1] # b[1] THEN Ord(a[1]) < Ord(b[1])
    ELSE StrLess(Tail(a), Tail(b))

\* ------------------------------------------------------------------------
\* dict: items in insertion order
\* ------------------------------------------------------------------------
Keys(d) == {d[i][1] : i \in 1..Len(d)}

KeyIndex(d, k) == CHOOSE i \in 1..Len(d) : d[i][1] = k

\* d[k]
DictGet(d, k) == d[KeyIndex(d, k)][2]

\* d[k] = v : overwrite in place, or append a new item
DictSet(d, k, v) ==
    IF k \in Keys(d)
    THEN [d EXCEPT ![KeyIndex(d, k)] = <<k, v>>]
    ELSE Append(d, <<k, v>>)

\* {v: {} for v in vertices}
RECURSIVE EmptyGraph(_)
EmptyGraph(vs) ==
    IF Len(vs) = 0 THEN <<>>
    ELSE DictSet(EmptyGraph(SubSeq(vs, 1, Len(vs) - 1)), vs[Len(vs)], <<>>)

\* vertices.index(x): the first position holding x (0-based)
ListIndex(vs, x) == (CHOOSE i \in 1..Len(vs) : vs[i] = x /\ \A j \in 1..(i - 1) : vs[j] # x) - 1

\* ------------------------------------------------------------------------
\* dijkstra(graph, start)
\* ------------------------------------------------------------------------
\* {vertex: sys.maxsize for vertex in graph}
InitDistances(g) == [i \in 1..Len(g) |-> <<g[i][1], maxsize>>]

\* order of the heap's tuples (current_dist, current_vertex)
TupleLess(a, b) == a[1] < b[1] \/ (a[1] = b[1] /\ StrLess(a[2], b[2]))

\* heapq.heappop(pq): the smallest tuple, and pq without it
HeapMinIndex(pq) == CHOOSE i \in 1..Len(pq) :
    /\ \A j \in 1..Len(pq) : ~TupleLess(pq[j], pq[i])
    /\ \A j \in 1..(i - 1) : pq[j] # pq[i]

heappop(pq) ==
    LET i == HeapMinIndex(pq)
    IN  [item |-> pq[i], rest |-> SubSeq(pq, 1, i - 1) \o SubSeq(pq, i + 1, Len(pq))]

\* heapq.heappush(pq, item)
heappush(pq, item) == Append(pq, item)

\* the test of line 90 that lets a neighbour's distance be replaced
Improves(new_dist, old_dist) == new_dist < old_dist

\* for neighbor, weight in graph[current_vertex].items(): from item i on
RECURSIVE RelaxNeighbors(_, _, _, _, _)
RelaxNeighbors(items, i, current_dist, distances, pq) ==
    IF i > Len(items) THEN [distances |-> distances, pq |-> pq]
    ELSE LET neighbor == items[i][1]
             weight   == items[i][2]
             new_dist == current_dist + weight
         IN  IF Improves(new_dist, DictGet(distances, neighbor))
             THEN RelaxNeighbors(items, i + 1, current_dist,
                                 DictSet(distances, neighbor, new_dist),
                                 heappush(pq, <<new_dist, neighbor>>))
             ELSE RelaxNeighbors(items, i + 1, current_dist, distances, pq)

\* while pq: ...
RECURSIVE DijkstraLoop(_, _, _)
DijkstraLoop(g, distances, pq) ==
    IF Len(pq) = 0 THEN distances
    ELSE LET popped         == heappop(pq)
             current_dist   == popped.item[1]
             current_vertex == popped.item[2]
         IN  IF current_dist > DictGet(distances, current_vertex)
             THEN DijkstraLoop(g, distances, popped.rest)
             ELSE LET r == RelaxNeighbors(DictGet(g, current_vertex), 1, current_dist,
                                          distances, popped.rest)
                  IN  DijkstraLoop(g, r.distances, r.pq)

dijkstra(g, start) ==
    DijkstraLoop(g, DictSet(InitDistances(g), start, 0), <<<<0, start>>>>)

\* ------------------------------------------------------------------------
\* floyd_warshall(graph, vertices)
\* ------------------------------------------------------------------------
\* vertices.index(x) and the list cells are 0-based in the program; rows and
\* columns are numbered from 1 here, so cell [i][j] of the program is
\* dist[i + 1][j + 1].

\* [[sys.maxsize]*n for _ in range(n)], then dist[i][i] = 0
InitDiagonal(len) == [i \in 1..len |-> [j \in 1..len |-> IF i = j THEN 0 ELSE maxsize]]

\* for j in graph[vertices[i]]: dist[i][vertices.index(j)] = graph[vertices[i]][j]
RECURSIVE FillRow(_, _, _, _, _)
FillRow(dist, vs, i, items, t) ==
    IF t > Len(items) THEN dist
    ELSE FillRow([dist EXCEPT ![i][ListIndex(vs, items[t][1]) + 1] = items[t][2]],
                 vs, i, items, t + 1)

RECURSIVE FillEdges(_, _, _, _)
FillEdges(dist, g, vs, i) ==
    IF i > Len(vs) THEN dist
    ELSE FillEdges(FillRow(dist, vs, i, DictGet(g, vs[i]), 1), g, vs, i + 1)

InitialMatrix(g, vs) == FillEdges(InitDiagonal(Len(vs)), g, vs, 1)

\* the body of the triple loop for one (k, i, j)
RelaxCell(dist, k, i, j) ==
    IF dist[i][j] > dist[i][k] + dist[k][j]
    THEN [dist EXCEPT ![i][j] = dist[i][k] + dist[k][j]]
    ELSE dist

\* for i in range(n): for j in range(n): ...   (in place, from cell (i, j) on)
RECURSIVE PivotPass(_, _, _, _)
PivotPass(dist, k, i, j) ==
    LET len == Len(dist)
    IN  IF i > len THEN dist
        ELSE IF j > len THEN PivotPass(dist, k, i + 1, 1)
        ELSE PivotPass(RelaxCell(dist, k, i, j), k, i, j + 1)

\* for k in range(n): ...; all_matrices.append(copy.deepcopy(dist))
RECURSIVE PivotLoop(_, _, _)
PivotLoop(dist, matrices, k) ==
    IF k > Len(dist) THEN [dist |-> dist, all_matrices |-> matrices]
    ELSE LET d == PivotPass(dist, k, 1, 1)
         IN  PivotLoop(d, Append(matrices, d), k + 1)

\* the snapshot list without D0
FirstSnapshotMissing(dist) == <<>>

\* all_matrices = []; all_matrices.append(copy.deepcopy(dist))
FirstSnapshot(dist) == <<dist>>

floyd_warshall(g, vs) ==
    LET dist == InitialMatrix(g, vs)
    IN  PivotLoop(dist, FirstSnapshot(dist), 1)

\* ------------------------------------------------------------------------
\* What the user types
\* ------------------------------------------------------------------------
\* str(k) for k >= 0
RECURSIVE str(_)
str(k) == IF k < 10 THEN <<DigitChars[k + 1]>>
          ELSE str(k \div 10) \o <<DigitChars[(k % 10) + 1]>>

\* the names typed as vertices, in the order in which they are first used.
\* The program treats a name through equality and, in the heap, through
\* the order of strings; with "B" first, that order agrees with the order of
\* declaration for some pairs and not for others.
NameInputs == <<<<"B">>, <<"A">>, <<"C">>>>

\* a name that is in the list already, or the next new one
TypedNames(vs) ==
    {NameInputs[i] : i \in {j \in 1..Len(NameInputs) :
                              \A h \in 1..(j - 1) : NameInputs[h] \in SeqRange(vs)}}

UnknownName == <<"Z">>

\* weights typed in an edge line: small ones, one above the sentinel
WeightValues == {0, 1, 3, maxsize + 1}
\* a negative one and one that is no integer
BadWeights == {<<"-", "1">>, <<"1", ".", "5">>}

Join3(u, v, w) == u \o <<" ">> \o v \o <<" ">> \o w

\* lines with a missing, an extra or no field at all
BadFormatLines == {<<>>, <<"A", " ", "B">>, <<"A", " ", "B", " ", "1", " ", "1">>}

\* lines naming a vertex that no session declares
UnknownNameLines ==
    {Join3(UnknownName, <<"A">>, <<"1">>), Join3(<<"A">>, UnknownName, <<"1">>),
     Join3(UnknownName, UnknownName, <<"-", "1">>)}

LinesWith(weights) ==
    {Join3(u, v, w) : u \in SeqRange(NameInputs), v \in SeqRange(NameInputs), w \in weights}
    \cup UnknownNameLines \cup BadFormatLines

\* the edge lines typed in the sessions with one request
EdgeLines == LinesWith({str(w) : w \in WeightValues} \cup BadWeights)

\* the edge lines typed in the sessions with any number of menu requests:
\* every graph is multiplied by the results the menu retains, so fewer
\* weights are typed
FewEdgeLines == LinesWith({<<"1">>} \cup BadWeights)

CountInputs(max) == {str(k) : k \in 0..max} \cup {<<"-", "1">>, <<"A">>}
ChoiceInputs == {str(k) : k \in 1..6} \cup {<<"A">>}
SourceInputs == SeqRange(NameInputs) \cup {UnknownName, <<"1">>}

\* ------------------------------------------------------------------------
\* input_graph()
\* ------------------------------------------------------------------------
\* safe_int / safe_str return the typed text once it passes isdigit /
\* isalpha; text that does not pass is answered by a message and asked
\* again, which changes nothing below.
safe_int(val) == int(val)

\* n = safe_int(...); vertices = []   (with n = 0 the loop of line 44 is
\* empty and line 47 follows at once)
ReadN(val) ==
    /\ pc = "n"
    /\ isdigit(val)
    /\ n' = safe_int(val)
    /\ vertices' = <<>>
    /\ IF n' = 0
       THEN graph' = EmptyGraph(vertices') /\ pc' = "e"
       ELSE graph' = graph /\ pc' = "vertices"
    /\ out' = ""
    /\ UNCHANGED <<e, edge_i, last_dijkstra, last_source, fw_result, all_matrices>>

\* vertices.append(safe_str(...))
AppendVertex(vs, val) == Append(vs, val)

\* one round of the loop of line 44; after the last one, line 47
ReadVertex(val) ==
    /\ pc = "vertices"
    /\ isalpha(val)
    /\ vertices' = AppendVertex(vertices, val)
    /\ IF Len(vertices') = n
       THEN graph' = EmptyGraph(vertices') /\ pc' = "e"
       ELSE graph' = graph /\ pc' = "vertices"
    /\ out' = ""
    /\ UNCHANGED <<n, e, edge_i, last_dijkstra, last_source, fw_result, all_matrices>>

\* e = safe_int(...); with e = 0 input_graph returns and main reaches the menu
ReadE(val) ==
    /\ pc = "e"
    /\ isdigit(val)
    /\ e' = safe_int(val)
    /\ edge_i' = 0
    /\ pc' = IF e' = 0 THEN "menu" ELSE "edges"
    /\ last_dijkstra' = None
    /\ last_source' = None
    /\ out' = ""
    /\ UNCHANGED <<n, vertices, graph, fw_result, all_matrices>>

\* graph[u][v] = int(w)
StoreEdge(g, u, v, w) == DictSet(g, u, DictSet(DictGet(g, u), v, int(w)))

\* the edge loop with only the source of the edge looked up in vertices
EdgeOutcomeSourceOnly(g, vs, line) ==
    LET data == split(line)
    IN  IF Len(data) # 3
        THEN [graph |-> g, accepted |-> FALSE, out |-> "INVALID FORMAT! USE: src dest weight"]
        ELSE IF data[1] \notin SeqRange(vs)
        THEN [graph |-> g, accepted |-> FALSE, out |-> "INVALID VERTEX NAME"]
        ELSE IF ~isdigit(data[3])
        THEN [graph |-> g, accepted |-> FALSE, out |-> "WEIGHT MUST BE INTEGER"]
        ELSE [graph |-> StoreEdge(g, data[1], data[2], data[3]), accepted |-> TRUE, out |-> ""]

\* the graph after one typed line, and what is printed
EdgeOutcome(g, vs, line) ==
    LET data == split(line)
    IN  IF Len(data) # 3
        THEN [graph |-> g, accepted |-> FALSE, out |-> "INVALID FORMAT! USE: src dest weight"]
        ELSE IF data[1] \notin SeqRange(vs) \/ data[2] \notin SeqRange(vs)
        THEN [graph |-> g, accepted |-> FALSE, out |-> "INVALID VERTEX NAME"]
        ELSE IF ~isdigit(data[3])
        THEN [graph |-> g, accepted |-> FALSE, out |-> "WEIGHT MUST BE INTEGER"]
        ELSE [graph |-> StoreEdge(g, data[1], data[2], data[3]), accepted |-> TRUE, out |-> ""]

\* one typed line in the loop of lines 52-68
EdgeEntry(line) ==
    /\ pc = "edges"
    /\ LET r == EdgeOutcome(graph, vertices, line)
       IN  /\ out' = r.out
           /\ edge_i' = IF r.accepted THEN edge_i + 1 ELSE edge_i
           /\ graph' = r.graph
           /\ pc' = IF edge_i' = e THEN "menu" ELSE "edges"
    /\ UNCHANGED <<n, vertices, e, last_dijkstra, last_source, fw_result, all_matrices>>

\* ------------------------------------------------------------------------
\* main(): the menu loop
\* ------------------------------------------------------------------------
\* choice = safe_int(...) and the comparisons of lines 240-266
Chosen(val, k) == isdigit(val) /\ safe_int(val) = k

\* choice 1 with last_source assigned before the source is looked up
Choice1AssignsFirst(val, src) ==
    /\ pc = "menu" /\ Chosen(val, 1)
    /\ isalpha(src)
    /\ last_source' = src
    /\ IF src \notin SeqRange(vertices)
       THEN /\ out' = "INVALID SOURCE VERTEX"
            /\ last_dijkstra' = last_dijkstra
       ELSE /\ out' = "DIJKSTRA'S FINAL OUTPUT"
            /\ last_dijkstra' = dijkstra(graph, src)
    /\ UNCHANGED <<pc, n, vertices, graph, e, edge_i, fw_result, all_matrices>>

\* choice 1: an unknown source is answered by a message and nothing else;
\* a vertex becomes last_source and its distances last_dijkstra
Choice1(val, src) ==
    /\ pc = "menu" /\ Chosen(val, 1)
    /\ isalpha(src)
    /\ IF src \notin SeqRange(vertices)
       THEN /\ out' = "INVALID SOURCE VERTEX"
            /\ last_source' = last_source
            /\ last_dijkstra' = last_dijkstra
       ELSE /\ out' = "DIJKSTRA'S FINAL OUTPUT"
            /\ last_source' = src
            /\ last_dijkstra' = dijkstra(graph, src)
    /\ UNCHANGED <<pc, n, vertices, graph, e, edge_i, fw_result, all_matrices>>

Choice2(val) ==
    /\ pc = "menu" /\ Chosen(val, 2)
    /\ out' = "FLOYD-WARSHALL STEP-BY-STEP OUTPUT"
    /\ LET r == floyd_warshall(graph, vertices)
       IN  /\ fw_result' = r.dist
           /\ all_matrices' = r.all_matrices
    /\ UNCHANGED <<pc, n, vertices, graph, e, edge_i, last_dijkstra, last_source>>

Choice3(val) ==
    /\ pc = "menu" /\ Chosen(val, 3)
    /\ out' = "MAIN GRAPH (ORIGINAL)"
    /\ UNCHANGED <<pc, n, vertices, graph, e, edge_i, last_dijkstra, last_source,
                   fw_result, all_matrices>>

\* choice 4: draw the retained result, or say that there is none
Choice4Out(old_dijkstra) ==
    IF old_dijkstra = None THEN "RUN DIJKSTRA FIRST"
    ELSE "FINAL GRAPH (AFTER SHORTEST PATH)"

Choice4(val) ==
    /\ pc = "menu" /\ Chosen(val, 4)
    /\ out' = Choice4Out(last_dijkstra)
    /\ UNCHANGED <<pc, n, vertices, graph, e, edge_i, last_dijkstra, last_source,
                   fw_result, all_matrices>>

Choice5(val) ==
    /\ pc = "menu" /\ Chosen(val, 5)
    /\ pc' = "done"
    /\ out' = "EXITING PROJECT"
    /\ UNCHANGED <<n, vertices, graph, e, edge_i, last_dijkstra, last_source,
                   fw_result, all_matrices>>

ChoiceOther(val) ==
    /\ pc = "menu" /\ isdigit(val) /\ safe_int(val) \notin 1..5
    /\ out' = "INVALID MENU CHOICE"
    /\ UNCHANGED <<pc, n, vertices, graph, e, edge_i, last_dijkstra, last_source,
                   fw_result, all_matrices>>

\* one round of the loop of line 230, for the choice val that was typed
MenuRound(val) ==
    \/ \E src \in SourceInputs : Choice1(val, src)
    \/ Choice2(val)
    \/ Choice3(val)
    \/ Choice4(val)
    \/ Choice5(val)
    \/ ChoiceOther(val)

\* ------------------------------------------------------------------------
\* Specifications
\* ------------------------------------------------------------------------
Init ==
    /\ pc = "n"
    /\ n = 0
    /\ vertices = <<>>
    /\ graph = <<>>
    /\ e = 0
    /\ edge_i = 0
    /\ last_dijkstra = None
    /\ last_source = None
    /\ fw_result = <<>>
    /\ all_matrices = <<>>
    /\ out = ""

InputGraph(lines) ==
    \/ \E val \in CountInputs(MaxVertices) : ReadN(val)
    \/ \E val \in TypedNames(vertices) \cup {<<"1">>} : ReadVertex(val)
    \/ \E val \in CountInputs(MaxEdges) : ReadE(val)
    \/ \E line \in lines : EdgeEntry(line)

Menu == \E val \in ChoiceInputs : MenuRound(val)

\* the whole program
Next == InputGraph(FewEdgeLines) \/ Menu

Spec == Init /\ [][Next]_vars

MenuMessages == {"INVALID SOURCE VERTEX", "DIJKSTRA'S FINAL OUTPUT",
                 "FLOYD-WARSHALL STEP-BY-STEP OUTPUT", "MAIN GRAPH (ORIGINAL)",
                 "RUN DIJKSTRA FIRST", "FINAL GRAPH (AFTER SHORTEST PATH)",
                 "EXITING PROJECT", "INVALID MENU CHOICE"}

\* the sessions in which the graph is typed in and then one algorithm is
\* asked for, once
FirstRequest ==
    /\ out \notin MenuMessages
    /\ \/ \E src \in SourceInputs : Choice1(str(1), src)
       \/ Choice2(str(2))

NextOne == InputGraph(EdgeLines) \/ FirstRequest

SpecOne == Init /\ [][NextOne]_vars

\* ------------------------------------------------------------------------
\* Shortest distances by enumeration of the paths, for comparison
\* ------------------------------------------------------------------------
HasEdge(g, u, v) == u \in Keys(g) /\ v \in Keys(DictGet(g, u))
EdgeWeight(g, u, v) == DictGet(DictGet(g, u), v)

\* the directed paths from u to v that visit at most as many vertices as
\* the graph has (with weights >= 0 a longer path is never shorter)
PathsFromTo(g, u, v) ==
    {p \in UNION {[1..len -> Keys(g)] : len \in 1..Cardinality(Keys(g))} :
        /\ p[1] = u
        /\ p[Len(p)] = v
        /\ \A t \in 1..(Len(p) - 1) : HasEdge(g, p[t], p[t + 1])}

RECURSIVE PathWeight(_, _)
PathWeight(g, p) ==
    IF Len(p) <= 1 THEN 0
    ELSE EdgeWeight(g, p[1], p[2]) + PathWeight(g, Tail(p))

Reachable(g, u, v) == PathsFromTo(g, u, v) # {}

MinPathWeight(g, u, v) ==
    LET ws == {PathWeight(g, p) : p \in PathsFromTo(g, u, v)}
    IN  CHOOSE w \in ws : \A x \in ws : w <= x

\* the distance the specification asks for: the sentinel when unreachable
TrueDistance(g, u, v) ==
    IF Reachable(g, u, v) THEN MinPathWeight(g, u, v) ELSE maxsize

DijkstraRan == out = "DIJKSTRA'S FINAL OUTPUT"
FloydRan == out = "FLOYD-WARSHALL STEP-BY-STEP OUTPUT"
Cells == 1..Len(vertices)

\* ------------------------------------------------------------------------
\* Claims
\* ------------------------------------------------------------------------

\* C1: the mapping returned by dijkstra(graph, s) covers every vertex, holds
\* 0 for s, the sentinel for every vertex without a path from s, and the
\* least total weight of a path from s for every other vertex.
C1_DijkstraShortest ==
    DijkstraRan =>
        /\ Keys(last_dijkstra) = Keys(graph)
        /\ DictGet(last_dijkstra, last_source) = 0
        /\ \A v \in Keys(graph) :
               DictGet(last_dijkstra, v) = TrueDistance(graph, last_source, v)

\* C2: every cell (i, j) of the final matrix of floyd_warshall holds the
\* shortest distance from vertex i to vertex j (0 by the empty path when
\* they are the same vertex), or the sentinel when there is no path.
C2_FloydShortest ==
    FloydRan =>
        \A i \in Cells : \A j \in Cells :
            fw_result[i][j] = TrueDistance(graph, vertices[i], vertices[j])

\* C3: every diagonal cell is 0 in the initial snapshot, in every later
\* snapshot and in the final matrix, self-loop edges included.
C3_DiagonalZero ==
    FloydRan =>
        /\ \A k \in 1..Len(all_matrices) : \A i \in Cells : all_matrices[k][i][i] = 0
        /\ \A i \in Cells : fw_result[i][i] = 0

\* C4: a vertex name that is declared again is refused, so the vertex list
\* never holds a name twice and is as long as the graph has keys.
C4_NoDuplicateVertex ==
    /\ \A i \in Cells : \A j \in Cells : i # j => vertices[i] # vertices[j]
    /\ pc \in {"e", "edges", "menu", "done"} => Len(vertices) = Len(graph)

\* C5: the sentinel never collides with a distance: every stored edge
\* weight is below it, and a distance of dijkstra or a cell of
\* floyd_warshall equals it exactly when the target is unreachable.
C5_SentinelDistinct ==
    /\ \A u \in Keys(graph) : \A v \in Keys(DictGet(graph, u)) :
           EdgeWeight(graph, u, v) < maxsize
    /\ DijkstraRan =>
           \A v \in Keys(graph) :
               (DictGet(last_dijkstra, v) = maxsize) <=> ~Reachable(graph, last_source, v)
    /\ FloydRan =>
           \A i \in Cells : \A j \in Cells :
               /\ fw_result[i][j] <= maxsize
               /\ (fw_result[i][j] = maxsize) <=> ~Reachable(graph, vertices[i], vertices[j])

\* the retained pair: unset, or the distances of a vertex and that vertex
C6_PairState ==
    \/ last_dijkstra = None /\ last_source = None
    \/ /\ last_source \in SeqRange(vertices)
       /\ last_dijkstra = dijkstra(graph, last_source)

C6_Replaced(src) == last_source' = src /\ last_dijkstra' = dijkstra(graph, src)
C6_Kept == last_source' = last_source /\ last_dijkstra' = last_dijkstra

\* what one menu round does to the retained pair, for every choice and
\* source that can have been typed in it
C6_RoundEffect ==
    /\ \A src \in SourceInputs :
           Choice1(<<"1">>, src) =>
               IF src \in SeqRange(vertices) THEN C6_Replaced(src) ELSE C6_Kept
    /\ C6_Kept \/ \A val \in ChoiceInputs \ {<<"1">>} : ~MenuRound(val)
    /\ out' = "RUN DIJKSTRA FIRST" \/ last_dijkstra # None \/ ~Choice4(<<"4">>)
    /\ out' = "FINAL GRAPH (AFTER SHORTEST PATH)" => last_dijkstra # None

\* C6: the retained pair is unset, or it is (dijkstra(graph, s), s) for a
\* vertex s; a menu round replaces it by that pair exactly when it is a
\* Dijkstra request (choice 1) with a source s that is a vertex, and leaves
\* it as it was otherwise (unknown source, Floyd-Warshall, drawing, exit,
\* invalid choice); choice 4 on the unset pair reports that there is no
\* result and draws nothing.
C6_RetainedResult ==
    /\ [](C6_PairState)
    /\ [][pc = "menu" => C6_RoundEffect]_vars

\* C6 witness: a request with an unknown source after a Dijkstra run and a
\* Floyd-Warshall run, the retained pair still being the one of that run.
C6_Witness ==
    /\ pc = "menu"
    /\ out = "INVALID SOURCE VERTEX"
    /\ last_source = <<"A">>
    /\ Len(last_dijkstra) = 3
    /\ all_matrices # <<>>

\* the entries the specification says are refused: not exactly three
\* fields, an endpoint that is no declared vertex, a weight that is
\* negative or no integer
RefusedLines(vs) ==
    BadFormatLines
    \cup {Join3(u, v, w) : u \in SeqRange(NameInputs) \cup {UnknownName},
                           v \in SeqRange(NameInputs) \cup {UnknownName},
                           w \in BadWeights}
    \cup {Join3(u, v, str(w)) : u \in (SeqRange(NameInputs) \cup {UnknownName}) \ SeqRange(vs),
                                v \in SeqRange(NameInputs) \cup {UnknownName},
                                w \in WeightValues}
    \cup {Join3(u, v, str(w)) : u \in SeqRange(NameInputs) \cup {UnknownName},
                                v \in (SeqRange(NameInputs) \cup {UnknownName}) \ SeqRange(vs),
                                w \in WeightValues}

\* every entry the specification says is refused is answered by a message,
\* with the graph it found
C7_RefusedOutcome ==
    pc = "edges" =>
        \A line \in RefusedLines(vertices) \cap EdgeLines :
            LET r == EdgeOutcome(graph, vertices, line)
            IN  r.out # "" /\ ~r.accepted /\ r.graph = graph

\* C7: an edge entry that is refused leaves the graph as it was: no edge is
\* added and no weight is changed.  The refused entries are answered by a
\* message with the graph unchanged, and a step of the edge loop that
\* prints a message changes neither the graph nor the number of edges read.
C7_RefusedEntryKeepsGraph ==
    /\ [](C7_RefusedOutcome)
    /\ [][(pc = "edges" /\ out' # "") => (graph' = graph /\ edge_i' = edge_i)]_vars

\* C7 witness: an entry with a weight that is no number has just been
\* refused while the graph already holds an edge.
C7_Witness ==
    /\ pc = "edges"
    /\ out = "WEIGHT MUST BE INTEGER"
    /\ edge_i = 1
    /\ \E u \in Keys(graph) : DictGet(graph, u) # <<>>

\* the order of distances in which INFINITY is the largest value
LeqInf(a, b) == b = maxsize \/ (a # maxsize /\ a <= b)

\* C8: for every pivot step and every cell, the value in the later snapshot
\* is less than or equal to the value in the earlier one, INFINITY being
\* the largest value.
C8_Monotone ==
    FloydRan =>
        \A k \in 1..(Len(all_matrices) - 1) : \A i \in Cells : \A j \in Cells :
            LeqInf(all_matrices[k + 1][i][j], all_matrices[k][i][j])

\* C9: floyd_warshall returns n + 1 snapshots (n = 0 included), the one
\* after pivot k changing a cell only to the sum through pivot k, and the
\* final matrix is the last snapshot.
C9_SnapshotSequence ==
    FloydRan =>
        /\ Len(all_matrices) = Len(vertices) + 1
        /\ fw_result = all_matrices[Len(vertices) + 1]
        /\ \A k \in Cells : \A i \in Cells : \A j \in Cells :
               all_matrices[k + 1][i][j] \in
                   {all_matrices[k][i][j], all_matrices[k][i][k] + all_matrices[k][k][j]}

\* C9 witness: a run on three vertices in which the second pivot changed
\* the matrix.
C9_Witness ==
    /\ FloydRan
    /\ Len(vertices) = 3
    /\ Len(all_matrices) = 4
    /\ all_matrices[3] # all_matrices[2]

\* the sum of the specification: an addition with INFINITY yields INFINITY
InfPlus(a, b) == IF a = maxsize \/ b = maxsize THEN maxsize ELSE a + b
Min2(a, b) == IF a <= b THEN a ELSE b

\* C10: snapshot k+1 is computed cell by cell from snapshot k alone:
\* min(D[i][j], D[i][k] + D[k][j]) with the sum of the specification.
C10_PassFromSnapshot ==
    FloydRan =>
        \A k \in Cells : \A i \in Cells : \A j \in Cells :
            all_matrices[k + 1][i][j] =
                Min2(all_matrices[k][i][j],
                     InfPlus(all_matrices[k][i][k], all_matrices[k][k][j]))

====
